---------------------------- MODULE Spec2Model ----------------------------
(***************************************************************************)
(* Model of the retention bot's form handler (src/app.py):                 *)
(* RetentionModal.on_submit with its helpers parse_salary_to_int and       *)
(* extract_player_name.                                                    *)
(*                                                                         *)
(* A text is a sequence of one-character strings.  A float is an IEEE-754  *)
(* double, kept as a sign, a 53-bit significand (a sequence of bits, most  *)
(* significant first) and the exponent of its last bit; every float        *)
(* operation of the handler rounds to nearest, ties to even, as the        *)
(* interpreter's does.                                                     *)
(***************************************************************************)
EXTENDS Integers, Sequences, FiniteSets, TLC

VARIABLES
    teams,              \* self.teams.value
    player_stats,       \* self.player_stats.value
    player_salary,      \* self.player_salary.value
    retention_amount,   \* self.retention_amount.value
    years_retained,     \* self.years_retained.value
    retention_type,     \* self.retention_type: "percent" or "number"
    now_year,           \* datetime.now().year
    pc,                 \* position of on_submit
    t_from, t_to, stats_text, player_name,
    salary_val, years, retention_raw,
    pct, retained_amount, remaining,
    embed,              \* the embed built at the end of on_submit
    responses           \* what interaction.response.send_message has sent

vars == <<teams, player_stats, player_salary, retention_amount, years_retained,
          retention_type, now_year, pc, t_from, t_to, stats_text, player_name,
          salary_val, years, retention_raw, pct, retained_amount, remaining,
          embed, responses>>

inputs == <<teams, player_stats, player_salary, retention_amount, years_retained,
            retention_type, now_year>>

-----------------------------------------------------------------------------
(* Bounds of the model and constants of the program *)

MaxTeamsLen == 4
MaxStatsTokens == 3
MaxSalaryLen == 2
MaxRetentionLen == 3
MaxYearsLen == 2

StatsMaxLength == 1500
NameScanLines == 8
NameGroupMin == 2
NameGroupMax == 60
CommaPrefixLimit == 40
FirstLineCut == 60
PreviewLimit == 1000
PreviewKeep == 997
MantissaBits == 53

-----------------------------------------------------------------------------
(* Texts *)

SeqsUpTo(A, n) == UNION {[1..k -> A] : k \in 0..n}

RECURSIVE Flatten(_)
Flatten(ts) == IF ts = <<>> THEN <<>> ELSE Head(ts) \o Flatten(Tail(ts))

Digits == {"0", "1", "2", "3", "4", "5", "6", "7", "8", "9"}

DigitVal(c) ==
    CASE c = "0" -> 0 [] c = "1" -> 1 [] c = "2" -> 2 [] c = "3" -> 3
      [] c = "4" -> 4 [] c = "5" -> 5 [] c = "6" -> 6 [] c = "7" -> 7
      [] c = "8" -> 8 [] c = "9" -> 9

\* str.isspace for the characters of the model
IsSpace(c) == c \in {" ", "\n"}

\* str.strip()
Strip(t) ==
    IF \A i \in 1..Len(t) : IsSpace(t[i]) THEN <<>>
    ELSE LET a == CHOOSE i \in 1..Len(t) :
                      ~IsSpace(t[i]) /\ \A j \in 1..(i - 1) : IsSpace(t[j])
             b == CHOOSE i \in 1..Len(t) :
                      ~IsSpace(t[i]) /\ \A j \in (i + 1)..Len(t) : IsSpace(t[j])
         IN  SubSeq(t, a, b)

\* whether pat occurs in t at index i
OccursAt(t, pat, i) ==
    /\ i + Len(pat) - 1 <= Len(t)
    /\ \A k \in 1..Len(pat) : t[i + k - 1] = pat[k]

\* pat in t
Contains(t, pat) == \E i \in 1..Len(t) : OccursAt(t, pat, i)

\* t.find(pat) + 1, for a pat that occurs in t
IndexOf(t, pat) ==
    CHOOSE i \in 1..Len(t) :
        OccursAt(t, pat, i) /\ \A j \in 1..(i - 1) : ~OccursAt(t, pat, j)

\* t.split(pat, 1), for a pat that occurs in t
Split1(t, pat) ==
    LET i == IndexOf(t, pat)
    IN  <<SubSeq(t, 1, i - 1), SubSeq(t, i + Len(pat), Len(t))>>

\* re.sub(r"[^...]", "", t): the characters of t that are in keep
KeepOnly(t, keep) == SelectSeq(t, LAMBDA c : c \in keep)

\* str.splitlines()
RECURSIVE SplitLines(_)
SplitLines(t) ==
    IF t = <<>> THEN <<>>
    ELSE IF Contains(t, <<"\n">>)
         THEN LET i == IndexOf(t, <<"\n">>)
              IN  <<SubSeq(t, 1, i - 1)>> \o SplitLines(SubSeq(t, i + 1, Len(t)))
         ELSE <<t>>

\* int(t) for a text of digits
RECURSIVE DigitsToInt(_)
DigitsToInt(t) ==
    IF t = <<>> THEN 0
    ELSE 10 * DigitsToInt(SubSeq(t, 1, Len(t) - 1)) + DigitVal(t[Len(t)])

AllDigits(t) == t # <<>> /\ \A i \in 1..Len(t) : t[i] \in Digits

\* int(t) succeeds, for a text of digits and minus signs
IntParses(t) == AllDigits(t) \/ (t # <<>> /\ t[1] = "-" /\ AllDigits(Tail(t)))

\* int(t), for such a text
IntOf(t) == IF t[1] = "-" THEN 0 - DigitsToInt(Tail(t)) ELSE DigitsToInt(t)

-----------------------------------------------------------------------------
(* Floats: IEEE-754 doubles, round to nearest, ties to even *)

Zeros(n) == [i \in 1..n |-> 0]

RECURSIVE IntToBits(_)
IntToBits(n) == IF n = 0 THEN <<>> ELSE IntToBits(n \div 2) \o <<n % 2>>

RECURSIVE BitsToInt(_)
BitsToInt(b) ==
    IF b = <<>> THEN 0 ELSE 2 * BitsToInt(SubSeq(b, 1, Len(b) - 1)) + b[Len(b)]

StripLeadingZeros(b) ==
    IF \A i \in 1..Len(b) : b[i] = 0 THEN <<>>
    ELSE LET a == CHOOSE i \in 1..Len(b) : b[i] = 1 /\ \A j \in 1..(i - 1) : b[j] = 0
         IN  SubSeq(b, a, Len(b))

\* b + 1, one bit longer when every bit of b is set
IncBits(b) ==
    IF \A i \in 1..Len(b) : b[i] = 1 THEN <<1>> \o Zeros(Len(b))
    ELSE LET k == CHOOSE i \in 1..Len(b) : b[i] = 0 /\ \A j \in (i + 1)..Len(b) : b[j] = 1
         IN  SubSeq(b, 1, k - 1) \o <<1>> \o Zeros(Len(b) - k)

\* The arithmetic below works on limbs of 8 bits, most significant first.
LimbWeights == <<128, 64, 32, 16, 8, 4, 2, 1>>

ToLimbs(b) ==
    LET pb == Zeros((8 - (Len(b) % 8)) % 8) \o b
    IN  [j \in 1..(Len(pb) \div 8) |->
            pb[8 * j - 7] * 128 + pb[8 * j - 6] * 64 + pb[8 * j - 5] * 32
            + pb[8 * j - 4] * 16 + pb[8 * j - 3] * 8 + pb[8 * j - 2] * 4
            + pb[8 * j - 1] * 2 + pb[8 * j]]

FromLimbs(l) ==
    [i \in 1..(8 * Len(l)) |->
        (l[((i - 1) \div 8) + 1] \div LimbWeights[((i - 1) % 8) + 1]) % 2]

\* l * n for an integer n >= 0: the limbs from index i down with carry c, as bits
RECURSIVE MulLimbsFrom(_, _, _, _)
MulLimbsFrom(l, n, i, c) ==
    IF i = 0 THEN IntToBits(c)
    ELSE MulLimbsFrom(l, n, i - 1, ((l[i] * n) + c) \div 256)
         \o FromLimbs(<<((l[i] * n) + c) % 256>>)

\* b * n for an integer n >= 0
MulBits(b, n) == MulLimbsFrom(ToLimbs(b), n, Len(ToLimbs(b)), 0)

\* long division of l by d > 0 from index i with remainder r: the quotient's
\* limbs and the final remainder
RECURSIVE DivLimbsFrom(_, _, _, _)
DivLimbsFrom(l, d, i, r) ==
    IF i > Len(l) THEN [q |-> <<>>, r |-> r]
    ELSE LET rest == DivLimbsFrom(l, d, i + 1, ((r * 256) + l[i]) % d)
         IN  [q |-> <<((r * 256) + l[i]) \div d>> \o rest.q, r |-> rest.r]

\* b divided by d > 0: the quotient's bits and the remainder
DivBits(b, d) ==
    LET r == DivLimbsFrom(ToLimbs(b), d, 1, 0)
    IN  [q |-> FromLimbs(r.q), r |-> r.r]

ZeroFloat == [neg |-> FALSE, m |-> <<>>, e |-> 0]

\* the double nearest to (-1)^neg * (b + f) * 2^e, where 0 <= f < 1 and f > 0
\* exactly when sticky; needs 54 significant bits in b when sticky
RoundBits(neg, b, e, sticky) ==
    LET s == StripLeadingZeros(b)
        n == Len(s)
    IN  IF n = 0 THEN [neg |-> neg, m |-> <<>>, e |-> 0]
        ELSE IF n <= MantissaBits
        THEN [neg |-> neg, m |-> s \o Zeros(MantissaBits - n), e |-> e - (MantissaBits - n)]
        ELSE LET keep == SubSeq(s, 1, MantissaBits)
                 guard == s[MantissaBits + 1]
                 more == sticky \/ \E i \in (MantissaBits + 2)..n : s[i] = 1
                 up == guard = 1 /\ (more \/ keep[MantissaBits] = 1)
                 r == IF up THEN IncBits(keep) ELSE keep
             IN  IF Len(r) > MantissaBits
                 THEN [neg |-> neg, m |-> SubSeq(r, 1, MantissaBits),
                       e |-> e + (n - MantissaBits) + 1]
                 ELSE [neg |-> neg, m |-> r, e |-> e + (n - MantissaBits)]

\* float(n) for an integer n
IntToFloat(n) == RoundBits(n < 0, IntToBits(IF n < 0 THEN 0 - n ELSE n), 0, FALSE)

\* the double nearest to (-1)^neg * a / d for integers a >= 0, d > 0: what
\* float("a.b") and the true division a / d return
FloatOfRatio(neg, a, d) ==
    LET z == MantissaBits + 1 + Len(IntToBits(d))
        r == DivBits(IntToBits(a) \o Zeros(z), d)
    IN  RoundBits(neg, r.q, 0 - z, r.r # 0)

\* x / float(d) for an integer d > 0
FloatDivInt(x, d) ==
    IF x.m = <<>> THEN x
    ELSE LET z == 1 + Len(IntToBits(d))
             r == DivBits(x.m \o Zeros(z), d)
         IN  RoundBits(x.neg, r.q, x.e - z, r.r # 0)

\* float(n) * x for an integer n that a double holds exactly
FloatMulInt(x, n) ==
    LET an == IF n < 0 THEN 0 - n ELSE n
        neg == (x.neg /\ n >= 0) \/ (~x.neg /\ n < 0)
    IN  RoundBits(neg, MulBits(x.m, an), x.e, FALSE)

\* the integer part of |x| and whether |x| has a fraction
IntPart(x) ==
    LET k == MantissaBits + x.e
    IN  IF x.m = <<>> THEN [int |-> 0, frac |-> FALSE]
        ELSE IF k <= 0 THEN [int |-> 0, frac |-> TRUE]
        ELSE IF k >= MantissaBits
        THEN [int |-> BitsToInt(x.m \o Zeros(k - MantissaBits)), frac |-> FALSE]
        ELSE [int |-> BitsToInt(SubSeq(x.m, 1, k)),
              frac |-> \E i \in (k + 1)..MantissaBits : x.m[i] = 1]

\* math.floor(x)
Floor(x) ==
    LET p == IntPart(x)
    IN  IF x.neg THEN 0 - (p.int + (IF p.frac THEN 1 ELSE 0)) ELSE p.int

\* int(x): truncation toward zero
Trunc(x) == LET p == IntPart(x) IN IF x.neg THEN 0 - p.int ELSE p.int

\* float(t) succeeds, for a text of digits, dots and minus signs
FloatParses(t) ==
    LET body == IF t # <<>> /\ t[1] = "-" THEN Tail(t) ELSE t
    IN  /\ \A i \in 1..Len(body) : body[i] \in Digits \cup {"."}
        /\ Cardinality({i \in 1..Len(body) : body[i] = "."}) <= 1
        /\ \E i \in 1..Len(body) : body[i] \in Digits

RECURSIVE Pow10(_)
Pow10(k) == IF k = 0 THEN 1 ELSE 10 * Pow10(k - 1)

\* float(t), for such a text
FloatOf(t) ==
    LET neg == t[1] = "-"
        body == IF neg THEN Tail(t) ELSE t
        digs == KeepOnly(body, Digits)
        k == IF Contains(body, <<".">>) THEN Len(body) - IndexOf(body, <<".">>) ELSE 0
    IN  FloatOfRatio(neg, DigitsToInt(digs), Pow10(k))

\* max(0.0, min(100.0, x))
Clamp(x) ==
    IF x.m = <<>> \/ x.neg THEN ZeroFloat
    ELSE IF MantissaBits + x.e > 7 \/ IntPart(x).int >= 100 THEN IntToFloat(100)
    ELSE x

-----------------------------------------------------------------------------
(* Helpers of app.py *)

None == [ok |-> FALSE, val |-> 0]

\* a parse that takes 0 for a text int() rejects
parse_salary_lenient(s) ==
    IF s = <<>> THEN None
    ELSE LET cleaned == KeepOnly(s, Digits \cup {"-"})
         IN  IF cleaned = <<>> \/ cleaned = <<"-">> \/ cleaned = <<"-", "-">> THEN None
             ELSE IF IntParses(cleaned) THEN [ok |-> TRUE, val |-> IntOf(cleaned)]
             ELSE [ok |-> TRUE, val |-> 0]

\* parse_salary_to_int(s): None, or the integer
parse_salary_to_int(s) ==
    IF s = <<>> THEN None
    ELSE LET cleaned == KeepOnly(s, Digits \cup {"-"})
         IN  IF cleaned = <<>> \/ cleaned = <<"-">> \/ cleaned = <<"-", "-">> THEN None
             ELSE IF IntParses(cleaned) THEN [ok |-> TRUE, val |-> IntOf(cleaned)]
             ELSE None

\* str.lower for the letters of the model
Lower(c) ==
    CASE c = "N" -> "n" [] c = "A" -> "a" [] c = "M" -> "m" [] c = "E" -> "e"
      [] c = "P" -> "p" [] c = "L" -> "l" [] c = "Y" -> "y" [] c = "R" -> "r"
      [] c = "J" -> "j" [] OTHER -> c

\* ln starts with word, ignoring case (re.I)
StartsWithIgnoreCase(ln, word) ==
    /\ Len(word) <= Len(ln)
    /\ \A i \in 1..Len(word) : Lower(ln[i]) = Lower(word[i])

\* the characters of the class [:\s\-]
NameSeparators == {":", " ", "\n", "-"}

\* re.search(r"^(?:Name|Player)[:\s\-]+(.{2,60})$", ln, flags=re.I) on a line
\* without line breaks: the index where group 1 starts, or 0 without a match.
\* The separator run is greedy and gives characters back until the group fits.
NameMatch(ln) ==
    LET p == IF StartsWithIgnoreCase(ln, <<"N", "a", "m", "e">>) THEN 4
             ELSE IF StartsWithIgnoreCase(ln, <<"P", "l", "a", "y", "e", "r">>) THEN 6
             ELSE 0
        fits == {j \in 1..(Len(ln) - p) :
                    /\ \A k \in 1..j : ln[p + k] \in NameSeparators
                    /\ Len(ln) - p - j >= NameGroupMin
                    /\ Len(ln) - p - j <= NameGroupMax}
    IN  IF p = 0 \/ fits = {} THEN 0
        ELSE p + (CHOOSE j \in fits : \A k \in fits : k <= j) + 1

\* the first of the lines that matches, or 0
FirstNameLine(lines) ==
    LET hits == {i \in 1..Len(lines) : i <= NameScanLines /\ NameMatch(lines[i]) # 0}
    IN  IF hits = {} THEN 0 ELSE CHOOSE i \in hits : \A k \in hits : i <= k

\* extract_player_name(stats_text)
extract_player_name(text) ==
    IF text = <<>> THEN <<"U", "n", "k", "n", "o", "w", "n", " ", "P", "l", "a", "y", "e", "r">>
    ELSE LET lines == SelectSeq([i \in 1..Len(SplitLines(text)) |-> Strip(SplitLines(text)[i])],
                                LAMBDA ln : ln # <<>>)
             hit == FirstNameLine(lines)
             first == lines[1]
         IN  IF lines = <<>>
             THEN <<"U", "n", "k", "n", "o", "w", "n", " ", "P", "l", "a", "y", "e", "r">>
             ELSE IF hit # 0
             THEN Strip(SubSeq(lines[hit], NameMatch(lines[hit]), Len(lines[hit])))
             ELSE IF Contains(first, <<" ", "-", " ">>)
             THEN Strip(Split1(first, <<" ", "-", " ">>)[1])
             ELSE IF Contains(first, <<",">>) /\ Len(Split1(first, <<",">>)[1]) < CommaPrefixLimit
             THEN Strip(Split1(first, <<",">>)[1])
             ELSE Strip(SubSeq(first, 1, IF Len(first) < FirstLineCut THEN Len(first)
                                         ELSE FirstLineCut))

Unknown == <<"U", "n", "k", "n", "o", "w", "n">>

\* a split that looks for "/" before "->"
SplitTeamsSlashFirst(raw) ==
    IF Contains(raw, <<"/">>)
    THEN <<Strip(Split1(raw, <<"/">>)[1]), Strip(Split1(raw, <<"/">>)[2])>>
    ELSE IF Contains(raw, <<"-", ">">>)
    THEN <<Strip(Split1(raw, <<"-", ">">>)[1]), Strip(Split1(raw, <<"-", ">">>)[2])>>
    ELSE IF Contains(raw, <<",">>)
    THEN <<Strip(Split1(raw, <<",">>)[1]), Strip(Split1(raw, <<",">>)[2])>>
    ELSE <<raw, <<"U", "n", "k", "n", "o", "w", "n">> >>

\* on_submit, "Parse teams": <<t_from, t_to>> of the stripped teams text
SplitTeams(raw) ==
    IF Contains(raw, <<"-", ">">>)
    THEN <<Strip(Split1(raw, <<"-", ">">>)[1]), Strip(Split1(raw, <<"-", ">">>)[2])>>
    ELSE IF Contains(raw, <<"/">>)
    THEN <<Strip(Split1(raw, <<"/">>)[1]), Strip(Split1(raw, <<"/">>)[2])>>
    ELSE IF Contains(raw, <<",">>)
    THEN <<Strip(Split1(raw, <<",">>)[1]), Strip(Split1(raw, <<",">>)[2])>>
    ELSE <<raw, Unknown>>

\* a years parse without the check years < 0
ParseYearsAnySign(value) ==
    LET cleaned == KeepOnly(Strip(value), Digits \cup {"-"})
        text == IF cleaned = <<>> THEN <<"0">> ELSE cleaned
    IN  IF IntParses(text) THEN [ok |-> TRUE, val |-> IntOf(text)] ELSE None

\* on_submit, "Years": int(re.sub(r"[^\d\-]", "", value.strip()) or "0"), None
\* when int() raises or the value is negative
ParseYears(value) ==
    LET cleaned == KeepOnly(Strip(value), Digits \cup {"-"})
        text == IF cleaned = <<>> THEN <<"0">> ELSE cleaned
    IN  IF IntParses(text) /\ IntOf(text) >= 0 THEN [ok |-> TRUE, val |-> IntOf(text)]
        ELSE None

\* on_submit: re.sub(r"[^\d\.-]", "", value.strip())
CleanRetention(value) == KeepOnly(Strip(value), Digits \cup {".", "-"})

\* on_submit, percent branch: math.floor(salary_val * (pct / 100.0))
PercentRetained(salary, p) == Floor(FloatMulInt(FloatDivInt(p, 100), salary))

\* on_submit, percent branch: salary_val - retained_amount
PercentRemaining(salary, retained) == salary - retained

\* on_submit, numeric branch: max(0, int(float(retention_raw)))
NumericRetained(raw) == LET v == Trunc(FloatOf(raw)) IN IF v > 0 THEN v ELSE 0

\* a remaining amount without the clamp at 0
NumericRemainingUnclamped(salary, retained) == salary - retained

\* on_submit, numeric branch: max(0, salary_val - retained_amount)
NumericRemaining(salary, retained) ==
    IF salary - retained > 0 THEN salary - retained ELSE 0

\* an implied percentage left as a fraction
ImpliedFraction(salary, retained) ==
    IF salary > 0 THEN FloatOfRatio(FALSE, retained, salary) ELSE ZeroFloat

\* on_submit, numeric branch:
\* (retained_amount / salary_val * 100.0) if salary_val > 0 else 0.0
ImpliedPercent(salary, retained) ==
    IF salary > 0 THEN FloatMulInt(FloatOfRatio(FALSE, retained, salary), 100)
    ELSE ZeroFloat

\* a preview that keeps 1000 characters before the dots
StatsPreviewLate(text) ==
    IF Len(text) <= PreviewLimit THEN text
    ELSE SubSeq(text, 1, PreviewLimit) \o <<".", ".", ".">>

\* on_submit: stats_text if len(stats_text) <= 1000 else stats_text[:997] + "..."
StatsPreview(text) ==
    IF Len(text) <= PreviewLimit THEN text
    ELSE SubSeq(text, 1, PreviewKeep) \o <<".", ".", ".">>

-----------------------------------------------------------------------------
(* The submissions of the model *)

TextsUpTo(A, n) == SeqsUpTo(A, n) \ {<<>>}

TeamsAlphabet == {"A", "-", ">", "/", ",", " "}
TeamsTexts == TextsUpTo(TeamsAlphabet, MaxTeamsLen)

\* a long run of one character, half the preview limit
Block == [i \in 1..(PreviewLimit \div 2) |-> "x"]

StatsTokens ==
    {<<"N", "a", "m", "e">>, <<"P", "L", "A", "Y", "E", "R">>, <<":">>, <<" ">>,
     <<" ", "-", " ">>, <<",">>, <<"\n">>, <<"J">>, Block}
StatsTexts ==
    {t \in {Flatten(ts) : ts \in TextsUpTo(StatsTokens, MaxStatsTokens)} :
        Len(t) <= StatsMaxLength}

SalaryAlphabet == {"5", "0", "-", "$"}
SalaryTexts == TextsUpTo(SalaryAlphabet, MaxSalaryLen)

RetentionAlphabet == {"5", "8", ".", "-"}
RetentionTexts == TextsUpTo(RetentionAlphabet, MaxRetentionLen)

YearsAlphabet == {"2", "-", " "}
YearsTexts == TextsUpTo(YearsAlphabet, MaxYearsLen)

RetentionTypes == {"percent", "number"}
ClockYears == {2025, 2026}

SalarySamples == {<<"5", "0">>, <<"-">>, <<" ">>}
RetentionSamples == {<<"5", "8">>, <<"5", "8", "%">>, <<"%">>, <<"-">>}

Submission(t, s, sal, ret, y, type, now) ==
    [teams |-> t, player_stats |-> s, player_salary |-> sal, retention_amount |-> ret,
     years_retained |-> y, retention_type |-> type, now |-> now]

\* four families: every teams text, every stats text, every salary with every
\* retention in both modes, every years text with valid and invalid others
Submissions ==
    {Submission(t, <<"J">>, <<"5", "0">>, <<"5", "8">>, <<"2">>, "percent", 2025) :
        t \in TeamsTexts}
    \cup {Submission(<<"A", "-", ">", "A">>, s, <<"5", "0">>, <<"5", "8">>, <<"2">>,
                     "number", 2025) : s \in StatsTexts}
    \cup {Submission(<<"A">>, <<"J">>, x[1], x[2], <<"2">>, x[3], 2025) :
            x \in SalaryTexts \X RetentionTexts \X RetentionTypes}
    \cup {Submission(<<"A">>, <<"J">>, x[1], x[2], x[3], x[4], x[5]) :
            x \in SalarySamples \X RetentionSamples \X YearsTexts \X RetentionTypes
                  \X ClockYears}

-----------------------------------------------------------------------------
(* RetentionModal.on_submit *)

\* the sections of on_submit with the years check ahead of the salary check
AfterYearsFirst(p) ==
    CASE p = "teams" -> "years" [] p = "years" -> "salary" [] p = "salary" -> "retention"
      [] p = "retention" -> "compute" [] p = "compute" -> "embed" [] p = "embed" -> "done"

\* the section of on_submit that follows section p when p does not return
After(p) ==
    CASE p = "teams" -> "salary" [] p = "salary" -> "years" [] p = "years" -> "retention"
      [] p = "retention" -> "compute" [] p = "compute" -> "embed" [] p = "embed" -> "done"

Rejection(reason) == [kind |-> "rejection", reason |-> reason]
Result == [kind |-> "result", reason |-> "none"]

\* RetentionModal(retention_type), shown and not yet submitted
Init ==
    /\ retention_type \in RetentionTypes
    /\ now_year \in ClockYears
    /\ teams = <<>>
    /\ player_stats = <<>>
    /\ player_salary = <<>>
    /\ retention_amount = <<>>
    /\ years_retained = <<>>
    /\ pc = "form"
    /\ t_from = <<>>
    /\ t_to = <<>>
    /\ stats_text = <<>>
    /\ player_name = <<>>
    /\ salary_val = 0
    /\ years = 0
    /\ retention_raw = <<>>
    /\ pct = ZeroFloat
    /\ retained_amount = 0
    /\ remaining = 0
    /\ embed = <<>>
    /\ responses = <<>>

\* the user fills in the five fields and submits: on_submit is called
Submit ==
    /\ pc = "form"
    /\ \E sub \in Submissions :
        /\ sub.retention_type = retention_type
        /\ sub.now = now_year
        /\ teams' = sub.teams
        /\ player_stats' = sub.player_stats
        /\ player_salary' = sub.player_salary
        /\ retention_amount' = sub.retention_amount
        /\ years_retained' = sub.years_retained
    /\ pc' = "teams"
    /\ UNCHANGED <<retention_type, now_year, t_from, t_to, stats_text, player_name,
                   salary_val, years, retention_raw, pct, retained_amount, remaining,
                   embed, responses>>

\* lines 122-135: teams, stats text, player name
ParseTeams ==
    /\ pc = "teams"
    /\ t_from' = SplitTeams(Strip(teams))[1]
    /\ t_to' = SplitTeams(Strip(teams))[2]
    /\ stats_text' = Strip(player_stats)
    /\ player_name' = extract_player_name(Strip(player_stats))
    /\ pc' = After(pc)
    /\ UNCHANGED <<inputs, salary_val, years, retention_raw, pct, retained_amount,
                   remaining, embed, responses>>

\* a salary check that sends its rejection and goes on
SalaryNoReturn ==
    /\ pc = "salary"
    /\ LET v == parse_salary_to_int(Strip(player_salary))
       IN  IF ~v.ok
           THEN /\ responses' = Append(responses, Rejection("InvalidSalary"))
                /\ pc' = After(pc)
                /\ UNCHANGED salary_val
           ELSE /\ salary_val' = v.val
                /\ pc' = After(pc)
                /\ UNCHANGED responses
    /\ UNCHANGED <<inputs, t_from, t_to, stats_text, player_name, years, retention_raw,
                   pct, retained_amount, remaining, embed>>

\* lines 137-145
Salary ==
    /\ pc = "salary"
    /\ LET v == parse_salary_to_int(Strip(player_salary))
       IN  IF ~v.ok
           THEN /\ responses' = Append(responses, Rejection("InvalidSalary"))
                /\ pc' = "done"
                /\ UNCHANGED salary_val
           ELSE /\ salary_val' = v.val
                /\ pc' = After(pc)
                /\ UNCHANGED responses
    /\ UNCHANGED <<inputs, t_from, t_to, stats_text, player_name, years, retention_raw,
                   pct, retained_amount, remaining, embed>>

\* lines 147-154
Years ==
    /\ pc = "years"
    /\ LET v == ParseYears(years_retained)
       IN  IF ~v.ok
           THEN /\ responses' = Append(responses, Rejection("InvalidYears"))
                /\ pc' = "done"
                /\ UNCHANGED years
           ELSE /\ years' = v.val
                /\ pc' = After(pc)
                /\ UNCHANGED responses
    /\ UNCHANGED <<inputs, t_from, t_to, stats_text, player_name, salary_val,
                   retention_raw, pct, retained_amount, remaining, embed>>

\* lines 156-160
Retention ==
    /\ pc = "retention"
    /\ retention_raw' = CleanRetention(retention_amount)
    /\ IF CleanRetention(retention_amount) = <<>>
       THEN /\ responses' = Append(responses, Rejection("InvalidRetention"))
            /\ pc' = "done"
       ELSE /\ pc' = After(pc)
            /\ UNCHANGED responses
    /\ UNCHANGED <<inputs, t_from, t_to, stats_text, player_name, salary_val, years,
                   pct, retained_amount, remaining, embed>>

\* lines 162-172
ComputePercent ==
    /\ pc = "compute"
    /\ retention_type = "percent"
    /\ IF ~FloatParses(retention_raw)
       THEN /\ responses' = Append(responses, Rejection("InvalidRetentionPercent"))
            /\ pc' = "done"
            /\ UNCHANGED <<pct, retained_amount, remaining>>
       ELSE /\ pct' = Clamp(FloatOf(retention_raw))
            /\ retained_amount' = PercentRetained(salary_val, Clamp(FloatOf(retention_raw)))
            /\ remaining' = PercentRemaining(salary_val, retained_amount')
            /\ pc' = After(pc)
            /\ UNCHANGED responses
    /\ UNCHANGED <<inputs, t_from, t_to, stats_text, player_name, salary_val, years,
                   retention_raw, embed>>

\* lines 173-183
ComputeNumeric ==
    /\ pc = "compute"
    /\ retention_type # "percent"
    /\ IF ~FloatParses(retention_raw)
       THEN /\ responses' = Append(responses, Rejection("InvalidRetentionAmount"))
            /\ pc' = "done"
            /\ UNCHANGED <<pct, retained_amount, remaining>>
       ELSE /\ retained_amount' = NumericRetained(retention_raw)
            /\ remaining' = NumericRemaining(salary_val, retained_amount')
            /\ pct' = ImpliedPercent(salary_val, retained_amount')
            /\ pc' = After(pc)
            /\ UNCHANGED responses
    /\ UNCHANGED <<inputs, t_from, t_to, stats_text, player_name, salary_val, years,
                   retention_raw, embed>>

\* line 197: years if years > 0 else 1
RatioDenominator(y) == IF y > 0 THEN y ELSE 1

\* lines 185-215: the embed, and the one send_message that carries it
BuildEmbed ==
    /\ pc = "embed"
    /\ embed' = <<[t_from |-> t_from, t_to |-> t_to, player_name |-> player_name,
                   pct |-> pct, years |-> years, ratio |-> RatioDenominator(years),
                   salary |-> salary_val, retained |-> retained_amount,
                   remaining |-> remaining, expire_year |-> now_year + years,
                   stats_preview |-> StatsPreview(stats_text),
                   footer |-> IF retention_type = "percent" THEN "Percent" ELSE "Numeric"]>>
    /\ responses' = Append(responses, Result)
    /\ pc' = After(pc)
    /\ UNCHANGED <<inputs, t_from, t_to, stats_text, player_name, salary_val, years,
                   retention_raw, pct, retained_amount, remaining>>

\* the steps of on_submit
Handler ==
    \/ ParseTeams
    \/ Salary
    \/ Years
    \/ Retention
    \/ ComputePercent
    \/ ComputeNumeric
    \/ BuildEmbed

Next == Submit \/ Handler

Spec == Init /\ [][Next]_vars

-----------------------------------------------------------------------------
(* Vocabulary of the properties *)

Accepted == pc = "done" /\ responses = <<Result>> /\ Len(embed) = 1
RejectedWith(reason) == pc = "done" /\ responses = <<Rejection(reason)>>
PercentMode == retention_type = "percent"

Max(a, b) == IF a >= b THEN a ELSE b

\* an optional minus sign, then one digit or more
LooksLikeInteger(t) ==
    LET body == IF t # <<>> /\ t[1] = "-" THEN SubSeq(t, 2, Len(t)) ELSE t
    IN  Len(body) >= 1 /\ \A i \in 1..Len(body) : body[i] \in Digits

\* an optional minus sign, then digits around at most one dot, one digit or more
LooksLikeDecimal(t) ==
    LET body == IF t # <<>> /\ t[1] = "-" THEN SubSeq(t, 2, Len(t)) ELSE t
        dots == {i \in 1..Len(body) : body[i] = "."}
    IN  /\ \A i \in 1..Len(body) : body[i] \in Digits \cup {"."}
        /\ Cardinality(dots) <= 1
        /\ Cardinality(dots) < Len(body)

SalaryDigits == KeepOnly(Strip(player_salary), Digits \cup {"-"})
YearsDigits == KeepOnly(Strip(years_retained), Digits \cup {"-"})
RetentionDigits == KeepOnly(Strip(retention_amount), Digits \cup {".", "-"})

SalaryTextValid == LooksLikeInteger(SalaryDigits)

\* empty, or an integer that is not negative ("-0" is zero)
YearsTextValid ==
    \/ YearsDigits = <<>>
    \/ /\ LooksLikeInteger(YearsDigits)
       /\ YearsDigits[1] = "-" => \A i \in 2..Len(YearsDigits) : YearsDigits[i] = "0"

\* the integer part of a decimal text without sign
WholePart(t) ==
    LET dots == {i \in 1..Len(t) : t[i] = "."}
    IN  IF dots = {} THEN DigitsToInt(t)
        ELSE DigitsToInt(SubSeq(t, 1, (CHOOSE i \in dots : TRUE) - 1))

\* floor(s * p / 100) for an integer s >= 0 and a double 0 <= p <= 100, exactly
ExactPercentOf(s, p) ==
    IF p.m = <<>> THEN 0
    ELSE LET product == MulBits(p.m, s)
         IN  BitsToInt(SubSeq(product, 1, Len(product) + p.e)) \div 100

\* floor(x * 1024) for a double x >= 0
Scaled(x) == Floor([x EXCEPT !.e = @ + 10])

\* 0 <= x <= 100
InPercentRange(x) ==
    x.m = <<>> \/ (~x.neg /\ (Floor(x) < 100 \/ x = IntToFloat(100)))

-----------------------------------------------------------------------------
(* C1 *)

\* C1, as stated: every accepted submission, in Percent and in Numeric mode, has
\* retained + remaining = salary when the salary is positive, and remaining = 0
\* when the salary is 0.
C1_SumIsSalary ==
    Accepted =>
        /\ salary_val > 0 => retained_amount + remaining = salary_val
        /\ salary_val = 0 => remaining = 0

\* C1, amended: with a positive salary, retained + remaining = salary in Percent
\* mode and in Numeric mode whenever retained <= salary; in Numeric mode with
\* retained > salary, remaining = 0 and the sum is the retained amount.  With a
\* salary of 0, remaining = 0.
C1_SumIsSalaryUnlessOverRetained ==
    Accepted =>
        /\ salary_val > 0 /\ (PercentMode \/ retained_amount <= salary_val)
              => embed[1].retained + embed[1].remaining = embed[1].salary
        /\ salary_val > 0 /\ ~PercentMode /\ retained_amount > salary_val
              => embed[1].remaining = 0
        /\ salary_val = 0 => embed[1].remaining = 0

C1_Witness ==
    Accepted /\ ~PercentMode /\ salary_val > 0 /\ embed[1].retained > embed[1].salary

(* C2 *)

\* C2: in every accepted submission the parsed salary, the retained amount and
\* the remaining amount are all >= 0; no salary text passes with a negative value.
C2_AmountsNonNegative ==
    Accepted => salary_val >= 0 /\ retained_amount >= 0 /\ remaining >= 0

(* C3 *)

\* C3: the checks run in the order salary, years, retention emptiness, retention
\* number, and the first that fails decides the response: an invalid salary gives
\* the salary reason whatever the years and retention are, a valid salary with
\* invalid years gives the years reason whatever the retention is, and the
\* retention reasons appear only when salary and years are both valid.
C3_FirstFailingCheckDecides ==
    pc = "done" =>
        responses =
            IF ~SalaryTextValid THEN <<Rejection("InvalidSalary")>>
            ELSE IF ~YearsTextValid THEN <<Rejection("InvalidYears")>>
            ELSE IF RetentionDigits = <<>> THEN <<Rejection("InvalidRetention")>>
            ELSE IF ~LooksLikeDecimal(RetentionDigits)
            THEN <<Rejection(IF PercentMode THEN "InvalidRetentionPercent"
                             ELSE "InvalidRetentionAmount")>>
            ELSE <<Result>>

C3_Witness ==
    /\ RejectedWith("InvalidSalary")
    /\ ~YearsTextValid
    /\ RetentionDigits = <<>>

(* C4 *)

\* C4: in Percent mode, for every accepted salary s >= 0, the parsed retention
\* value is clamped to [0, 100] to give p, the retained amount is
\* floor(s * p / 100), the remaining amount is s - retained, and
\* 0 <= retained <= s.
C4_PercentIsExactFloor ==
    Accepted /\ PercentMode /\ salary_val >= 0 =>
        /\ InPercentRange(pct)
        /\ retained_amount = ExactPercentOf(salary_val, pct)
        /\ remaining = salary_val - retained_amount
        /\ 0 <= retained_amount /\ retained_amount <= salary_val

(* C5 *)

\* C5: in Numeric mode, for every accepted salary s >= 0, the retained amount is
\* the retention value truncated toward zero and raised to 0 when negative, with
\* no upper clamp; remaining = max(0, s - retained); the implied percentage is
\* retained / s * 100 (to within 2^-10) when s > 0 and exactly 0 when s = 0.
C5_NumericRetention ==
    Accepted /\ ~PercentMode /\ salary_val >= 0 =>
        /\ retained_amount = IF retention_raw[1] = "-" THEN 0 ELSE WholePart(retention_raw)
        /\ remaining = Max(0, salary_val - retained_amount)
        /\ salary_val = 0 => pct = ZeroFloat
        /\ salary_val > 0 =>
              /\ Scaled(pct) >= ((102400 * retained_amount) \div salary_val) - 1
              /\ Scaled(pct) <= ((102400 * retained_amount) \div salary_val) + 1

C5_Witness ==
    /\ Accepted /\ ~PercentMode
    /\ salary_val > 0
    /\ retained_amount > salary_val
    /\ Contains(retention_raw, <<".">>)

(* C6 *)

\* C6: in every accepted submission fromTeam, toTeam and playerName are non-empty,
\* toTeam is "Unknown" when the teams text has no separator, and playerName is
\* "Unknown Player" when the stats text has no non-blank line.
C6_NamesNonEmpty ==
    Accepted =>
        /\ embed[1].t_from # <<>>
        /\ embed[1].t_to # <<>>
        /\ embed[1].player_name # <<>>
        /\ (\A sep \in {<<"-", ">">>, <<"/">>, <<",">>} : ~Contains(teams, sep))
              => embed[1].t_to = Unknown
        /\ (\A i \in 1..Len(player_stats) : IsSpace(player_stats[i]))
              => embed[1].player_name = Unknown \o <<" ", "P", "l", "a", "y", "e", "r">>

(* C7 *)

\* what holds of the responses in every state: nothing is sent twice, the handler
\* is finished exactly when it has sent its one response, and a result goes with
\* an embed and a rejection with none
OneResponse ==
    /\ Len(responses) <= 1
    /\ pc = "done" <=> Len(responses) = 1
    /\ Len(embed) = 1 <=> responses = <<Result>>

\* how far on_submit has come
Progress(p) ==
    CASE p = "form" -> 0 [] p = "teams" -> 1 [] p = "salary" -> 2 [] p = "years" -> 3
      [] p = "retention" -> 4 [] p = "compute" -> 5 [] p = "embed" -> 6 [] p = "done" -> 7

SplitAtFirst(raw, sep) ==
    LET at == {i \in 1..Len(raw) : OccursAt(raw, sep, i)}
        i == CHOOSE k \in at : \A j \in at : k <= j
    IN  <<Strip(SubSeq(raw, 1, i - 1)), Strip(SubSeq(raw, i + Len(sep), Len(raw)))>>

\* C8: the separator is chosen by priority "->", "/", ",", not by position; the
\* text is split in two at the first occurrence of the chosen separator, both
\* parts trimmed; without a separator fromTeam is the trimmed text and toTeam is
\* "Unknown".
C8_SplitByPriority ==
    pc \notin {"form", "teams"} =>
        <<t_from, t_to>> =
            IF Contains(Strip(teams), <<"-", ">">>) THEN SplitAtFirst(Strip(teams), <<"-", ">">>)
            ELSE IF Contains(Strip(teams), <<"/">>) THEN SplitAtFirst(Strip(teams), <<"/">>)
            ELSE IF Contains(Strip(teams), <<",">>) THEN SplitAtFirst(Strip(teams), <<",">>)
            ELSE <<Strip(teams), Unknown>>

C8_Witness ==
    /\ pc \notin {"form", "teams"}
    /\ Contains(teams, <<"-", ">">>)
    /\ Contains(t_from, <<"/">>)
    /\ Contains(t_to, <<",">>)

(* C9 *)

\* C9: the years check accepts exactly when the years text, stripped to digits
\* and minus signs, is empty (0) or an integer >= 0; so every accepted submission
\* has yearsRetained >= 0, expireYear = currentYear + yearsRetained >= currentYear
\* and a ratio denominator max(yearsRetained, 1) >= 1.
C9_YearsCheck ==
    /\ RejectedWith("InvalidYears") => ~YearsTextValid
    /\ pc \in {"retention", "compute", "embed"} =>
          /\ YearsTextValid
          /\ years = IF YearsDigits = <<>> THEN 0
                     ELSE DigitsToInt(KeepOnly(YearsDigits, Digits))
    /\ pc = "done" /\ SalaryTextValid /\ ~YearsTextValid => RejectedWith("InvalidYears")
    /\ Accepted =>
          /\ embed[1].years >= 0
          /\ embed[1].expire_year = now_year + embed[1].years
          /\ embed[1].expire_year >= now_year
          /\ embed[1].ratio = Max(embed[1].years, 1)
          /\ embed[1].ratio >= 1

C9_Witness ==
    /\ Accepted
    /\ YearsDigits = <<>>
    /\ embed[1].years = 0
    /\ embed[1].ratio = 1

(* C10 *)

=============================================================================
